---- MODULE Spec2Model ----
(***************************************************************************)
(* PermitPro PMS: the permit lifecycle engine.                             *)
(*                                                                         *)
(* The state is the content of the four tables the route handlers write    *)
(* (PermitPackage, Task, PermitDocument, ActivityLog) plus the files held  *)
(* by the storage adapter.  Every route handler is a sequence of awaited   *)
(* calls to the data store; each call is one step of the handler           *)
(* (XxxStep).  A sequential request runs its steps to completion (Run); a  *)
(* concurrent request takes one step at a time (SpecConc); a failing data  *)
(* store makes the k-th call of a request throw (SpecFault).               *)
(*                                                                         *)
(* Fields that no handler modelled here reads back (project name, address, *)
(* notes, user ids, the free text of a note or a description, internal     *)
(* stage) are left out of the rows.  A description is kept as the name of  *)
(* the template the handler fills in.                                      *)
(***************************************************************************)
EXTENDS Integers, Sequences, FiniteSets, TLC

VARIABLES
    permits,   \* PermitPackage table: id -> [status, billingStatus]
    tasks,     \* Task table: set of rows
    docs,      \* PermitDocument table: set of rows
    log,       \* ActivityLog table in write (createdAt) order
    files,     \* storage paths held by the storage adapter
    nextId,    \* id generators: [permit, task, doc, file, group]
    reqs,      \* requests in flight (concurrent specification only)
    uploads,   \* history: <<permit, fileName, category, versionTag>> of every upload
    faults,    \* number of requests in which a call to the data store has thrown
    last       \* the response of the request that ended last: [op, code]

vars == <<permits, tasks, docs, log, files, nextId, reqs, uploads, faults, last>>

----------------------------------------------------------------------------
(* Bounds of the model *)

MaxPermits == 1
MaxTasks == 2
MaxDocs == 3
MaxLog == 4
MaxReqs == 2
MaxFaults == 1

----------------------------------------------------------------------------
(* Enumerations of lib/validations *)

Null == "null"

PermitStatus ==
    {"New", "Submitted", "InReview", "RevisionsNeeded", "Approved",
     "Issued", "Inspections", "FinaledClosed", "Canceled"}

BillingStatus == {"NotSent", "SentToBilling", "Billed", "Paid"}

TaskStatus == {"NotStarted", "InProgress", "Waiting", "Completed"}

DocumentCategory ==
    {"Application", "Plans", "Specifications", "Engineering", "Photos",
     "Correspondence", "Inspection", "Certificate", "Other"}

DocumentStatus == {"Pending", "Verified", "Rejected"}

SendToBilling == "Send to Billing"

----------------------------------------------------------------------------
(* The tables as one value, as a handler sees them *)

DB ==
    [permits |-> permits, tasks |-> tasks, docs |-> docs, log |-> log,
     files |-> files, nextId |-> nextId, uploads |-> uploads]

EmptyDB ==
    [permits |-> << >>, tasks |-> {}, docs |-> {}, log |-> << >>, files |-> {},
     nextId |-> [permit |-> 1, task |-> 1, doc |-> 1, file |-> 1, group |-> 1],
     uploads |-> << >>]

Commit(d) ==
    /\ permits' = d.permits
    /\ tasks' = d.tasks
    /\ docs' = d.docs
    /\ log' = d.log
    /\ files' = d.files
    /\ nextId' = d.nextId
    /\ uploads' = d.uploads

LogEntry(p, type, desc, old, new) ==
    [permit |-> p, type |-> type, desc |-> desc, old |-> old, new |-> new]

\* prisma.activityLog.create: the row must reference an existing permit
CanLog(d, p) == p \in DOMAIN d.permits

\* a slip: the newest entry is put in front of the older ones
AppendLogNewestFirst(d, e) == [d EXCEPT !.log = <<e>> \o @]

AppendLog(d, e) == [d EXCEPT !.log = Append(@, e)]

Done(r, code) == [r EXCEPT !.pc = "done", !.code = code]

Goto(r, pc) == [r EXCEPT !.pc = pc]

Result(r, d) == [r |-> r, d |-> d]

----------------------------------------------------------------------------
(* POST /api/permits : create a permit package *)

CreatePermitReq(status) ==
    [op |-> "createPermit", pc |-> "create", code |-> 0, permit |-> 0,
     status |-> status]

CreatePermitStep(r, d, fail) ==
    CASE r.pc = "create" ->
            IF r.status \notin PermitStatus \cup {Null}
            THEN Result(Done(r, 400), d)
            ELSE IF fail
            THEN Result(Done(r, 500), d)
            ELSE LET id == d.nextId.permit
                     row == [status |-> IF r.status = Null THEN "New" ELSE r.status,
                             billingStatus |-> "NotSent"]
                 IN  Result([Goto(r, "log") EXCEPT !.permit = id],
                            [d EXCEPT !.permits = id :> row @@ @,
                                      !.nextId.permit = @ + 1])
      [] r.pc = "log" ->
            IF fail \/ ~CanLog(d, r.permit)
            THEN Result(Done(r, 500), d)
            ELSE Result(Done(r, 201),
                        AppendLog(d, LogEntry(r.permit, "StatusChange",
                                              "Permit package created", Null,
                                              d.permits[r.permit].status)))

----------------------------------------------------------------------------
(* POST /api/permits/[id]/status : set the status of a permit *)

SetStatusReq(p, status) ==
    [op |-> "setStatus", pc |-> "find", code |-> 0, permit |-> p,
     status |-> status, cur |-> Null, new |-> Null]

\* a slip: the existence check looks for the name under another permit id
HasTaskElsewhere(d, p, name) == \E t \in d.tasks : t.permit = p + 1 /\ t.name = name

HasTask(d, p, name) == \E t \in d.tasks : t.permit = p /\ t.name = name

AutoTask(d, p) ==
    [id |-> d.nextId.task, permit |-> p, name |-> SendToBilling,
     status |-> "NotStarted", priority |-> "high", completedAt |-> FALSE]

InsertTask(d, row) ==
    [d EXCEPT !.tasks = @ \cup {row}, !.nextId.task = @ + 1]

\* a slip: the old value is taken from the row the update returned
StatusChangeEntryStale(r) ==
    LogEntry(r.permit, "StatusChange", "Status changed", r.new, r.new)

\* the audit entry of a status change, from the row read before and the row returned
StatusChangeEntry(r) ==
    LogEntry(r.permit, "StatusChange", "Status changed", r.cur, r.new)

\* FinaledClosed: completed and closed; Canceled
TerminalStatus == {"FinaledClosed", "Canceled"}

\* a slip: a permit in a terminal status is left as it is
UpdateStatusUnlessTerminal(d, p, status) ==
    IF d.permits[p].status \in TerminalStatus
    THEN d
    ELSE [d EXCEPT !.permits[p].status = status]

\* prisma.permitPackage.update with data {status}
UpdateStatus(d, p, status) == [d EXCEPT !.permits[p].status = status]

\* a slip: the body is not validated
ValidStatusAny(status) == TRUE

\* permitStatusUpdateSchema.parse(body) accepts the status
ValidStatus(status) == status \in PermitStatus

SetStatusStep(r, d, fail) ==
    CASE r.pc = "find" ->
            IF ~ValidStatus(r.status)
            THEN Result(Done(r, 400), d)
            ELSE IF fail
            THEN Result(Done(r, 500), d)
            ELSE IF r.permit \notin DOMAIN d.permits
            THEN Result(Done(r, 404), d)
            ELSE Result([Goto(r, "update") EXCEPT !.cur = d.permits[r.permit].status], d)
      [] r.pc = "update" ->
            IF fail \/ r.permit \notin DOMAIN d.permits
            THEN Result(Done(r, 500), d)
            ELSE LET d2 == UpdateStatus(d, r.permit, r.status)
                 IN  Result([Goto(r, "log") EXCEPT !.new = d2.permits[r.permit].status],
                            d2)
      [] r.pc = "log" ->
            IF fail \/ ~CanLog(d, r.permit)
            THEN Result(Done(r, 500), d)
            ELSE LET d2 == AppendLog(d, StatusChangeEntry(r))
                 IN  IF r.status = "Approved"
                     THEN Result(Goto(r, "findTask"), d2)
                     ELSE Result(Done(r, 200), d2)
      [] r.pc = "findTask" ->
            IF fail
            THEN Result(Done(r, 500), d)
            ELSE IF HasTask(d, r.permit, SendToBilling)
            THEN Result(Done(r, 200), d)
            ELSE Result(Goto(r, "createTask"), d)
      [] r.pc = "createTask" ->
            IF fail \/ r.permit \notin DOMAIN d.permits
            THEN Result(Done(r, 500), d)
            ELSE Result(Goto(r, "logTask"), InsertTask(d, AutoTask(d, r.permit)))
      [] r.pc = "logTask" ->
            IF fail \/ ~CanLog(d, r.permit)
            THEN Result(Done(r, 500), d)
            ELSE Result(Done(r, 200),
                        AppendLog(d, LogEntry(r.permit, "TaskCreated",
                                              "Task auto-created", Null, Null)))

----------------------------------------------------------------------------
(* PATCH /api/permits/[id] : generic update, may carry status and billingStatus *)

PatchPermitReq(p, status, billing) ==
    [op |-> "patchPermit", pc |-> "find", code |-> 0, permit |-> p,
     status |-> status, billing |-> billing,
     cur |-> Null, new |-> Null, curBilling |-> Null, newBilling |-> Null]

\* a slip: the status entry is written after every update
LogsStatusAlways(r) == TRUE

\* the status entry is written when the body carries a status that differs
LogsStatus(r) == r.status # Null /\ r.status # r.cur

\* a slip: the entry is written whenever the body carries a billing status
LogsBillingAlways(r) == r.billing # Null

\* validatedData.billingStatus && validatedData.billingStatus !== currentPermit.billingStatus
LogsBilling(r) == r.billing # Null /\ r.billing # r.curBilling

PatchPermitStep(r, d, fail) ==
    CASE r.pc = "find" ->
            IF r.status \notin PermitStatus \cup {Null}
               \/ r.billing \notin BillingStatus \cup {Null}
            THEN Result(Done(r, 400), d)
            ELSE IF fail
            THEN Result(Done(r, 500), d)
            ELSE IF r.permit \notin DOMAIN d.permits
            THEN Result(Done(r, 404), d)
            ELSE Result([Goto(r, "update") EXCEPT
                            !.cur = d.permits[r.permit].status,
                            !.curBilling = d.permits[r.permit].billingStatus], d)
      [] r.pc = "update" ->
            IF fail
            THEN Result(Done(r, 500), d)
            ELSE IF r.permit \notin DOMAIN d.permits
            THEN Result(Done(r, 404), d)
            ELSE LET old == d.permits[r.permit]
                     row == [status |-> IF r.status = Null THEN old.status ELSE r.status,
                             billingStatus |-> IF r.billing = Null THEN old.billingStatus
                                               ELSE r.billing]
                     r2 == [r EXCEPT !.new = row.status, !.newBilling = row.billingStatus]
                     d2 == [d EXCEPT !.permits[r.permit] = row]
                 IN  IF LogsStatus(r2) THEN Result(Goto(r2, "logStatus"), d2)
                     ELSE IF LogsBilling(r2) THEN Result(Goto(r2, "logBilling"), d2)
                     ELSE Result(Done(r2, 200), d2)
      [] r.pc = "logStatus" ->
            IF fail \/ ~CanLog(d, r.permit)
            THEN Result(Done(r, 500), d)
            ELSE LET d2 == AppendLog(d, StatusChangeEntry(r))
                 IN  IF LogsBilling(r) THEN Result(Goto(r, "logBilling"), d2)
                     ELSE Result(Done(r, 200), d2)
      [] r.pc = "logBilling" ->
            IF fail \/ ~CanLog(d, r.permit)
            THEN Result(Done(r, 500), d)
            ELSE Result(Done(r, 200),
                        AppendLog(d, LogEntry(r.permit, "BillingStatusChange",
                                              "Billing status changed",
                                              r.curBilling, r.newBilling)))

----------------------------------------------------------------------------
(* POST /api/permits/[id]/tasks : create a task *)

CreateTaskReq(p, name, status) ==
    [op |-> "createTask", pc |-> "find", code |-> 0, permit |-> p,
     name |-> name, status |-> status, id |-> 0]

CreateTaskStep(r, d, fail) ==
    CASE r.pc = "find" ->
            IF r.name = "" \/ r.status \notin TaskStatus \cup {Null}
            THEN Result(Done(r, 400), d)
            ELSE IF fail
            THEN Result(Done(r, 500), d)
            ELSE IF r.permit \notin DOMAIN d.permits
            THEN Result(Done(r, 404), d)
            ELSE Result(Goto(r, "create"), d)
      [] r.pc = "create" ->
            IF fail \/ r.permit \notin DOMAIN d.permits
            THEN Result(Done(r, 500), d)
            ELSE LET row == [id |-> d.nextId.task, permit |-> r.permit, name |-> r.name,
                             status |-> IF r.status = Null THEN "NotStarted" ELSE r.status,
                             priority |-> Null, completedAt |-> FALSE]
                 IN  Result([Goto(r, "log") EXCEPT !.id = row.id], InsertTask(d, row))
      [] r.pc = "log" ->
            IF fail \/ ~CanLog(d, r.permit)
            THEN Result(Done(r, 500), d)
            ELSE Result(Done(r, 201),
                        AppendLog(d, LogEntry(r.permit, "TaskCreated", "Task created",
                                              Null, Null)))

----------------------------------------------------------------------------
(* PATCH /api/tasks/[id] : update a task *)

TaskById(d, id) == CHOOSE t \in d.tasks : t.id = id

TaskExists(d, id) == \E t \in d.tasks : t.id = id

UpdateTaskReq(id, name, status) ==
    [op |-> "updateTask", pc |-> "find", code |-> 0, id |-> id,
     name |-> name, status |-> status, cur |-> Null, permit |-> 0, new |-> Null]

\* the completedAt the handler sends with the update, given the row it read
CompletedAtAfter(status, cur, completedAt) ==
    IF status = "Completed" /\ cur # "Completed" THEN TRUE
    ELSE IF status # "Completed" /\ cur = "Completed" THEN FALSE
    ELSE completedAt

\* a slip: the status sent is not compared with the status read
LogsTaskStatusWheneverGiven(r) == r.status # Null

\* validatedData.status && validatedData.status !== currentTask.status
LogsTaskStatus(r) == r.status # Null /\ r.status # r.cur

\* task.status === 'Completed' ? 'TaskCompleted' : 'FieldUpdated'
TaskLogType(status) == IF status = "Completed" THEN "TaskCompleted" ELSE "FieldUpdated"

UpdateTaskStep(r, d, fail) ==
    CASE r.pc = "find" ->
            IF r.name = "" \/ r.status \notin TaskStatus \cup {Null}
            THEN Result(Done(r, 400), d)
            ELSE IF fail
            THEN Result(Done(r, 500), d)
            ELSE IF ~TaskExists(d, r.id)
            THEN Result(Done(r, 404), d)
            ELSE Result([Goto(r, "update") EXCEPT
                            !.cur = TaskById(d, r.id).status,
                            !.permit = TaskById(d, r.id).permit], d)
      [] r.pc = "update" ->
            IF fail
            THEN Result(Done(r, 500), d)
            ELSE IF ~TaskExists(d, r.id)
            THEN Result(Done(r, 404), d)
            ELSE LET old == TaskById(d, r.id)
                     row == [old EXCEPT
                                !.name = IF r.name = Null THEN @ ELSE r.name,
                                !.status = IF r.status = Null THEN @ ELSE r.status,
                                !.completedAt = CompletedAtAfter(r.status, r.cur, @)]
                     r2 == [r EXCEPT !.new = row.status]
                     d2 == [d EXCEPT !.tasks = (@ \ {old}) \cup {row}]
                 IN  IF LogsTaskStatus(r)
                     THEN Result(Goto(r2, "log"), d2)
                     ELSE Result(Done(r2, 200), d2)
      [] r.pc = "log" ->
            IF fail \/ ~CanLog(d, r.permit)
            THEN Result(Done(r, 500), d)
            ELSE Result(Done(r, 200),
                        AppendLog(d, LogEntry(r.permit, TaskLogType(r.new),
                                              "Task status changed", r.cur, r.new)))

----------------------------------------------------------------------------
(* DELETE /api/tasks/[id] : delete a task *)

DeleteTaskReq(id) ==
    [op |-> "deleteTask", pc |-> "find", code |-> 0, id |-> id]

DeleteTaskStep(r, d, fail) ==
    CASE r.pc = "find" ->
            IF fail
            THEN Result(Done(r, 500), d)
            ELSE IF ~TaskExists(d, r.id)
            THEN Result(Done(r, 404), d)
            ELSE Result(Goto(r, "delete"), d)
      [] r.pc = "delete" ->
            IF fail
            THEN Result(Done(r, 500), d)
            ELSE IF ~TaskExists(d, r.id)
            THEN Result(Done(r, 404), d)
            ELSE Result(Done(r, 200), [d EXCEPT !.tasks = @ \ {TaskById(d, r.id)}])

----------------------------------------------------------------------------
(* POST /api/permits/[id]/documents : upload a document *)

\* `v${n}`
VersionTag(n) == <<"v", n>>

\* storage.save rejects a buffer longer than MAX_FILE_SIZE
MAX_FILE_SIZE == 52428800

UploadReq(p, fileName, category, size, isNewVersion, parent, storageOk) ==
    [op |-> "upload", pc |-> "find", code |-> 0, permit |-> p,
     fileName |-> fileName, category |-> category, size |-> size,
     isNewVersion |-> isNewVersion, parent |-> parent, storageOk |-> storageOk,
     path |-> 0, group |-> 0, tag |-> VersionTag(0), id |-> 0]

\* a slip: the count leaves the category out of its filter
CountVersionsAnyCategory(d, p, fileName, category) ==
    Cardinality({x \in d.docs : x.permit = p /\ x.fileName = fileName})

\* prisma.permitDocument.count over the bucket (permit, fileName, category)
CountVersions(d, p, fileName, category) ==
    Cardinality({x \in d.docs :
                    x.permit = p /\ x.fileName = fileName /\ x.category = category})

NextVersionTag(existingVersions) ==
    IF existingVersions > 0 THEN VersionTag(existingVersions + 1) ELSE VersionTag(1)

DocExists(d, id) == \E x \in d.docs : x.id = id

DocById(d, id) == CHOOSE x \in d.docs : x.id = id

\* a slip: the group is always the parent's id, whatever group the parent is in
ParentGroupIsParent(d, parent) == parent

\* parentDoc?.versionGroupId || parentDocumentId ; 0 stands for null
ParentGroup(d, parent) ==
    IF DocExists(d, parent) /\ DocById(d, parent).group # 0
    THEN DocById(d, parent).group
    ELSE parent

\* randomBytes(16).toString('hex'): a value no document id and no other group has
FreshGroup(d) == 0 - d.nextId.group

\* a slip: the parent is linked whenever one is supplied
LinksParentWheneverGiven(r) == r.parent # 0

\* isNewVersion && parentDocumentId
LinksParent(r) == r.isNewVersion /\ r.parent # 0

\* a slip: the size of the buffer is not checked
SaveRejectsOnlyIO(r) == ~r.storageOk

\* storage.save throws: the buffer is longer than MAX_FILE_SIZE, or the write fails
SaveRejects(r) == r.size > MAX_FILE_SIZE \/ ~r.storageOk

UploadStep(r, d, fail) ==
    CASE r.pc = "find" ->
            IF fail
            THEN Result(Done(r, 500), d)
            ELSE IF r.permit \notin DOMAIN d.permits
            THEN Result(Done(r, 404), d)
            ELSE IF r.category \notin DocumentCategory
            THEN Result(Done(r, 400), d)
            ELSE Result(Goto(r, "save"), d)
      [] r.pc = "save" ->
            IF fail \/ SaveRejects(r)
            THEN Result(Done(r, 500), d)
            ELSE LET r2 == [r EXCEPT !.path = d.nextId.file]
                     d2 == [d EXCEPT !.files = @ \cup {d.nextId.file},
                                     !.nextId.file = @ + 1]
                 IN  IF LinksParent(r) THEN Result(Goto(r2, "findParent"), d2)
                     ELSE IF r.isNewVersion
                     THEN Result([Goto(r2, "count") EXCEPT !.group = FreshGroup(d)],
                                 [d2 EXCEPT !.nextId.group = @ + 1])
                     ELSE Result(Goto(r2, "count"), d2)
      [] r.pc = "findParent" ->
            IF fail
            THEN Result(Done(r, 500), d)
            ELSE Result([Goto(r, "count") EXCEPT !.group = ParentGroup(d, r.parent)], d)
      [] r.pc = "count" ->
            IF fail
            THEN Result(Done(r, 500), d)
            ELSE Result([Goto(r, "create") EXCEPT
                            !.tag = NextVersionTag(
                                CountVersions(d, r.permit, r.fileName, r.category))], d)
      [] r.pc = "create" ->
            IF \/ fail
               \/ r.permit \notin DOMAIN d.permits
               \/ (LinksParent(r) /\ ~DocExists(d, r.parent))
            THEN Result(Done(r, 500), d)
            ELSE LET row == [id |-> d.nextId.doc, permit |-> r.permit,
                             fileName |-> r.fileName, category |-> r.category,
                             versionTag |-> r.tag,
                             parent |-> IF LinksParent(r) THEN r.parent ELSE 0,
                             group |-> r.group, isVerified |-> FALSE,
                             status |-> "Pending", path |-> r.path]
                 IN  Result([Goto(r, "log") EXCEPT !.id = row.id],
                            [d EXCEPT !.docs = @ \cup {row},
                                      !.nextId.doc = @ + 1,
                                      !.uploads = Append(@, <<r.permit, r.fileName,
                                                              r.category, r.tag>>)])
      [] r.pc = "log" ->
            IF fail \/ ~CanLog(d, r.permit)
            THEN Result(Done(r, 500), d)
            ELSE Result(Done(r, 201),
                        AppendLog(d, LogEntry(r.permit, "DocumentUploaded",
                                              "Document uploaded", Null, Null)))

----------------------------------------------------------------------------
(* POST /api/documents/[id]/verify : verify or unverify a document *)

VerifyReq(id, isVerified) ==
    [op |-> "verify", pc |-> "find", code |-> 0, id |-> id,
     isVerified |-> isVerified, permit |-> 0]

VerifiedText(isVerified) ==
    IF isVerified THEN "Document verified" ELSE "Document unverified"

ReplaceDoc(d, old, row) == [d EXCEPT !.docs = (@ \ {old}) \cup {row}]

\* a slip: a rejected document keeps its status
VerifiedRowKeepsRejected(old, isVerified) ==
    [old EXCEPT !.isVerified = isVerified,
                !.status = IF @ = "Rejected" THEN @
                           ELSE IF isVerified THEN "Verified" ELSE "Pending"]

\* data: {isVerified, status: isVerified ? 'Verified' : 'Pending'}
VerifiedRow(old, isVerified) ==
    [old EXCEPT !.isVerified = isVerified,
                !.status = IF isVerified THEN "Verified" ELSE "Pending"]

VerifyStep(r, d, fail) ==
    CASE r.pc = "find" ->
            IF fail
            THEN Result(Done(r, 500), d)
            ELSE IF ~DocExists(d, r.id)
            THEN Result(Done(r, 404), d)
            ELSE Result(Goto(r, "update"), d)
      [] r.pc = "update" ->
            IF fail \/ ~DocExists(d, r.id)
            THEN Result(Done(r, 500), d)
            ELSE LET old == DocById(d, r.id)
                     row == VerifiedRow(old, r.isVerified)
                     r2 == [r EXCEPT !.permit = row.permit]
                 \* the entry is written whatever isVerified was before
                 IN  Result(Goto(r2, "log"), ReplaceDoc(d, old, row))
      [] r.pc = "log" ->
            IF fail \/ ~CanLog(d, r.permit)
            THEN Result(Done(r, 500), d)
            ELSE Result(Done(r, 200),
                        AppendLog(d, LogEntry(r.permit, "DocumentVerified",
                                              VerifiedText(r.isVerified), Null, Null)))

----------------------------------------------------------------------------
(* PATCH /api/documents/[id] : update document metadata *)

PatchDocReq(id, category, isVerified, status) ==
    [op |-> "patchDoc", pc |-> "find", code |-> 0, id |-> id,
     category |-> category, isVerified |-> isVerified, status |-> status,
     cur |-> Null, permit |-> 0]

PatchDocStep(r, d, fail) ==
    CASE r.pc = "find" ->
            IF \/ r.category \notin DocumentCategory \cup {Null}
               \/ r.isVerified \notin {Null, "true", "false"}
               \/ r.status \notin DocumentStatus \cup {Null}
            THEN Result(Done(r, 400), d)
            ELSE IF fail
            THEN Result(Done(r, 500), d)
            ELSE IF ~DocExists(d, r.id)
            THEN Result(Done(r, 404), d)
            ELSE Result([Goto(r, "update") EXCEPT
                            !.cur = IF DocById(d, r.id).isVerified THEN "true"
                                    ELSE "false"], d)
      [] r.pc = "update" ->
            IF fail
            THEN Result(Done(r, 500), d)
            ELSE IF ~DocExists(d, r.id)
            THEN Result(Done(r, 404), d)
            ELSE LET old == DocById(d, r.id)
                     row == [old EXCEPT
                                !.category = IF r.category = Null THEN @ ELSE r.category,
                                !.isVerified = IF r.isVerified = Null THEN @
                                               ELSE r.isVerified = "true",
                                !.status = IF r.status = Null THEN @ ELSE r.status]
                     r2 == [r EXCEPT !.permit = row.permit]
                 IN  IF r.isVerified # Null /\ r.isVerified # r.cur
                     THEN Result(Goto(r2, "log"), ReplaceDoc(d, old, row))
                     ELSE Result(Done(r2, 200), ReplaceDoc(d, old, row))
      [] r.pc = "log" ->
            IF fail \/ ~CanLog(d, r.permit)
            THEN Result(Done(r, 500), d)
            ELSE Result(Done(r, 200),
                        AppendLog(d, LogEntry(r.permit, "DocumentVerified",
                                              VerifiedText(r.isVerified = "true"),
                                              Null, Null)))

----------------------------------------------------------------------------
(* DELETE /api/documents/[id] : delete a document *)

DeleteDocReq(id, storageOk) ==
    [op |-> "deleteDoc", pc |-> "find", code |-> 0, id |-> id,
     storageOk |-> storageOk, path |-> 0, permit |-> 0]

\* a slip: the row is removed and the rows that name it as parent are left as they are
DeleteDocRowOnly(d, id) == [d EXCEPT !.docs = {y \in @ : y.id # id}]

\* ON DELETE SET NULL of PermitDocument_parentDocumentId_fkey
DeleteDocRow(d, id) ==
    [d EXCEPT !.docs = {IF x.parent = id THEN [x EXCEPT !.parent = 0] ELSE x :
                           x \in {y \in @ : y.id # id}}]

\* a slip: a failure of storage.delete ends the request
UnlinkStepThrows(r, d, fail) ==
    IF fail \/ ~r.storageOk
    THEN Result(Done(r, 500), d)
    ELSE Result(Goto(r, "delete"), [d EXCEPT !.files = @ \ {r.path}])

\* try { await storage.delete(document.storagePath) } catch { console.error }:
\* a failure of storage.delete is caught and logged; the handler goes on
UnlinkStep(r, d, fail) ==
    IF fail \/ ~r.storageOk
    THEN Result(Goto(r, "delete"), d)
    ELSE Result(Goto(r, "delete"), [d EXCEPT !.files = @ \ {r.path}])

DeleteDocStep(r, d, fail) ==
    CASE r.pc = "find" ->
            IF fail
            THEN Result(Done(r, 500), d)
            ELSE IF ~DocExists(d, r.id)
            THEN Result(Done(r, 404), d)
            ELSE Result([Goto(r, "unlink") EXCEPT
                            !.path = DocById(d, r.id).path,
                            !.permit = DocById(d, r.id).permit], d)
      [] r.pc = "unlink" -> UnlinkStep(r, d, fail)
      [] r.pc = "delete" ->
            IF fail
            THEN Result(Done(r, 500), d)
            ELSE IF ~DocExists(d, r.id)
            THEN Result(Done(r, 404), d)
            ELSE Result(Goto(r, "log"), DeleteDocRow(d, r.id))
      [] r.pc = "log" ->
            IF fail \/ ~CanLog(d, r.permit)
            THEN Result(Done(r, 500), d)
            ELSE Result(Done(r, 200),
                        AppendLog(d, LogEntry(r.permit, "FieldUpdated",
                                              "Document deleted", Null, Null)))

----------------------------------------------------------------------------
(* GET /api/documents/[id] and GET /api/permits/[id]/documents : reading documents *)

\* documents in the order of their upload; ids are handed out in that order
RECURSIVE Ascending(_)
Ascending(S) ==
    IF S = {} THEN << >>
    ELSE LET first == CHOOSE x \in S : \A y \in S : x.id <= y.id
         IN  <<first>> \o Ascending(S \ {first})

\* findUnique with include {parentDocument, childDocuments orderBy uploadedAt asc}
GetDocument(d, id) ==
    LET doc == DocById(d, id)
    IN  [doc |-> doc,
         parentDocument |-> {y \in d.docs : y.id = doc.parent},
         childDocuments |-> Ascending({y \in d.docs : y.parent = id})]

\* the version chain that reading a document shows: its parent, itself, its children
Lineage(d, id) ==
    LET got == GetDocument(d, id)
    IN  Ascending(got.parentDocument) \o <<got.doc>> \o got.childDocuments

\* a slip: the key is the versionGroupId alone, null included
GroupKeyIsGroup(x) == x.group

\* const key = doc.versionGroupId || doc.id
GroupKey(x) == IF x.group # 0 THEN x.group ELSE x.id

\* groupedDocuments[key] of the listing of permit p
GroupedDocuments(d, p, key) == {x \in d.docs : x.permit = p /\ GroupKey(x) = key}

----------------------------------------------------------------------------
(* GET /api/permits/[id] : a permit with its most recent activity *)

\* take: 50
ActivityTake == 50

GetPermitReq(p) == [op |-> "getPermit", pc |-> "find", code |-> 0, permit |-> p]

GetPermitStep(r, d, fail) ==
    IF fail
    THEN Result(Done(r, 500), d)
    ELSE IF r.permit \notin DOMAIN d.permits
    THEN Result(Done(r, 404), d)
    ELSE Result(Done(r, 200), d)

\* the entries of permit p, each named by its place in the order of writing (createdAt)
ActivityOf(d, p) == {i \in 1 .. Len(d.log) : d.log[i].permit = p}

\* a slip: orderBy createdAt asc
RECURSIVE OldestFirst(_)
OldestFirst(S) ==
    IF S = {} THEN << >>
    ELSE LET oldest == CHOOSE i \in S : \A j \in S : i <= j
         IN  <<oldest>> \o OldestFirst(S \ {oldest})

\* orderBy: { createdAt: 'desc' }
RECURSIVE NewestFirst(_)
NewestFirst(S) ==
    IF S = {} THEN << >>
    ELSE LET newest == CHOOSE i \in S : \A j \in S : i >= j
         IN  <<newest>> \o NewestFirst(S \ {newest})

Take(seq, n) == SubSeq(seq, 1, IF Len(seq) < n THEN Len(seq) ELSE n)

\* activityLogs of the permit that the handler returns
GetPermitActivity(d, p) == Take(NewestFirst(ActivityOf(d, p)), ActivityTake)

----------------------------------------------------------------------------
(* Running a handler *)

Step(r, d, fail) ==
    CASE r.op = "createPermit" -> CreatePermitStep(r, d, fail)
      [] r.op = "setStatus" -> SetStatusStep(r, d, fail)
      [] r.op = "patchPermit" -> PatchPermitStep(r, d, fail)
      [] r.op = "createTask" -> CreateTaskStep(r, d, fail)
      [] r.op = "updateTask" -> UpdateTaskStep(r, d, fail)
      [] r.op = "deleteTask" -> DeleteTaskStep(r, d, fail)
      [] r.op = "upload" -> UploadStep(r, d, fail)
      [] r.op = "verify" -> VerifyStep(r, d, fail)
      [] r.op = "patchDoc" -> PatchDocStep(r, d, fail)
      [] r.op = "deleteDoc" -> DeleteDocStep(r, d, fail)
      [] r.op = "getPermit" -> GetPermitStep(r, d, fail)

\* Run a request to its end; the f-th call to the data store throws (0: none)
RECURSIVE Run(_, _, _)
Run(r, d, f) ==
    IF r.pc = "done"
    THEN Result(r, d)
    ELSE LET x == Step(r, d, f = 1)
         IN  Run(x.r, x.d, IF f > 0 THEN f - 1 ELSE 0)

\* Rows the handler may still need are within the bounds of the model
Fits(d) ==
    /\ Len(d.log) <= MaxLog
    /\ Cardinality(d.tasks) <= MaxTasks
    /\ Cardinality(d.docs) <= MaxDocs
    /\ d.nextId.permit <= MaxPermits + 1
    /\ d.nextId.task <= MaxTasks + 1
    /\ d.nextId.doc <= MaxDocs + 1
    /\ d.nextId.file <= MaxDocs + 1

\* What the caller sees of a request that ended
Response(r) == [op |-> r.op, code |-> r.code]

\* A sequential request: the whole handler as one action
Handle(req, f) ==
    LET x == Run(req, DB, f)
    IN  /\ Fits(x.d)
        /\ f > 0 => faults < MaxFaults
        /\ Commit(x.d)
        /\ last' = Response(x.r)
        /\ faults' = IF f > 0 THEN faults + 1 ELSE faults
        /\ UNCHANGED reqs

\* Ids a request may name: those handed out so far and one that resolves to nothing
PermitIds == 1 .. nextId.permit

TaskIds == 1 .. nextId.task

\* Request bodies: the values a body is drawn from; "Bogus" is outside every enum
CreateStatusInputs == {Null, "Approved", "Bogus"}

StatusInputs == {"Approved", "Canceled", "Bogus"}

PatchStatusInputs == {Null, "Approved"}

PatchBillingInputs == {Null, "Paid"}

TaskNameInputs == {SendToBilling, "Inspect"}

TaskStatusInputs == {Null, "Completed"}

CreatePermit(status) == Handle(CreatePermitReq(status), 0)

SetStatus(p, status) == Handle(SetStatusReq(p, status), 0)

PatchPermit(p, status, billing) == Handle(PatchPermitReq(p, status, billing), 0)

CreateTask(p, name, status) == Handle(CreateTaskReq(p, name, status), 0)

UpdateTask(id, name, status) == Handle(UpdateTaskReq(id, name, status), 0)

DeleteTask(id) == Handle(DeleteTaskReq(id), 0)

DocIds == 1 .. nextId.doc

\* (fileName, category) of an upload
BucketInputs == {<<"plans.pdf", "Plans">>, <<"plans.pdf", "Other">>, <<"site.pdf", "Plans">>}

\* (isNewVersion, parentDocumentId) of an upload
VersionInputs == {<<FALSE, 0>>, <<TRUE, 0>>} \cup {<<TRUE, k>> : k \in DocIds}

Upload(p, b, v) == Handle(UploadReq(p, b[1], b[2], MAX_FILE_SIZE, v[1], v[2], TRUE), 0)

Verify(id, isVerified) == Handle(VerifyReq(id, isVerified), 0)

PatchDoc(id, category, isVerified, status) ==
    Handle(PatchDocReq(id, category, isVerified, status), 0)

DeleteDoc(id) == Handle(DeleteDocReq(id, TRUE), 0)

----------------------------------------------------------------------------

NoReq == [op |-> "none", pc |-> "done", code |-> 0]

Init ==
    /\ permits = EmptyDB.permits
    /\ tasks = {}
    /\ docs = {}
    /\ log = << >>
    /\ files = {}
    /\ nextId = EmptyDB.nextId
    /\ reqs = << >>
    /\ uploads = << >>
    /\ faults = 0
    /\ last = Response(NoReq)

\* The permit lifecycle, one request at a time: status and billing changes of
\* permits whose tasks are created and deleted by hand in between
Next ==
    \/ \E s \in CreateStatusInputs : CreatePermit(s)
    \/ \E p \in PermitIds, s \in StatusInputs : SetStatus(p, s)
    \/ \E p \in PermitIds, s \in PatchStatusInputs, b \in PatchBillingInputs :
          PatchPermit(p, s, b)
    \/ \E p \in PermitIds, n \in TaskNameInputs : CreateTask(p, n, Null)
    \/ \E t \in TaskIds : DeleteTask(t)

Spec == Init /\ [][Next]_vars

\* The tasks of permits created with the defaults
NextTasks ==
    \/ CreatePermit(Null)
    \/ \E p \in PermitIds : SetStatus(p, "Approved")
    \/ \E p \in PermitIds, n \in TaskNameInputs, s \in TaskStatusInputs :
          CreateTask(p, n, s)
    \/ \E t \in TaskIds, n \in {Null, "Inspect"}, s \in {Null, "InProgress", "Completed"} :
          UpdateTask(t, n, s)
    \/ \E t \in TaskIds : DeleteTask(t)

SpecTasks == Init /\ [][NextTasks]_vars

\* The status endpoint alone: a permit is created and its status set again and again
NextStatus ==
    \/ \E s \in CreateStatusInputs : CreatePermit(s)
    \/ \E p \in PermitIds, s \in StatusInputs \cup {"New", "InReview"} : SetStatus(p, s)

SpecStatus == Init /\ [][NextStatus]_vars

\* Documents of permits created with the defaults: uploads only
NextUpload ==
    \/ CreatePermit(Null)
    \/ \E p \in PermitIds, b \in BucketInputs, v \in {<<FALSE, 0>>, <<TRUE, 0>>} :
          Upload(p, b, v)

SpecUpload == Init /\ [][NextUpload]_vars

\* Documents: upload, verify, metadata update and deletion
NextDocs ==
    \/ CreatePermit(Null)
    \/ \E p \in PermitIds, b \in BucketInputs : Upload(p, b, <<FALSE, 0>>)
    \/ \E x \in DocIds, b \in BOOLEAN : Verify(x, b)
    \/ \E x \in DocIds, c \in {Null, "Other"}, b \in {Null, "true", "false"},
           st \in {Null, "Rejected"} : PatchDoc(x, c, b, st)
    \/ \E x \in DocIds : DeleteDoc(x)

SpecDocs == Init /\ [][NextDocs]_vars

\* A failing data store: the f-th call of a request throws.  The requests are
\* those that change what they set, so that each has a state change to audit.
MaxCalls == 6

SetStatusF(p, status, f) ==
    /\ p \in DOMAIN permits
    /\ status # permits[p].status
    /\ Handle(SetStatusReq(p, status), f)

SetBillingStatusF(p, billing, f) ==
    /\ p \in DOMAIN permits
    /\ billing # permits[p].billingStatus
    /\ Handle(PatchPermitReq(p, Null, billing), f)

UploadF(p, b, f) ==
    Handle(UploadReq(p, b[1], b[2], MAX_FILE_SIZE, FALSE, 0, TRUE), f)

VerifyF(id, isVerified, f) ==
    /\ DocExists(DB, id)
    /\ isVerified # DocById(DB, id).isVerified
    /\ Handle(VerifyReq(id, isVerified), f)

DeleteDocF(id, f) == Handle(DeleteDocReq(id, TRUE), f)

NextFault ==
    \/ CreatePermit(Null)
    \/ \E p \in PermitIds, s \in {"Approved", "Canceled"}, f \in 0 .. MaxCalls :
          SetStatusF(p, s, f)
    \/ \E p \in PermitIds, b \in {"SentToBilling", "Paid"}, f \in 0 .. MaxCalls :
          SetBillingStatusF(p, b, f)
    \/ \E p \in PermitIds, f \in 0 .. MaxCalls : UploadF(p, <<"plans.pdf", "Plans">>, f)
    \/ \E x \in DocIds, b \in BOOLEAN, f \in 0 .. MaxCalls : VerifyF(x, b, f)
    \/ \E x \in DocIds, f \in 0 .. MaxCalls : DeleteDocF(x, f)

SpecFault == Init /\ [][NextFault]_vars

\* Concurrent requests: every awaited call of a handler is a step of its own, and
\* the steps of the requests in flight interleave
StartRequest(req) ==
    /\ Len(reqs) < MaxReqs
    /\ reqs' = Append(reqs, req)
    /\ UNCHANGED <<permits, tasks, docs, log, files, nextId, uploads, faults, last>>

StartSetStatus(p, status) == StartRequest(SetStatusReq(p, status))

StartUpload(p, b) ==
    StartRequest(UploadReq(p, b[1], b[2], MAX_FILE_SIZE, FALSE, 0, TRUE))

StepRequest(i) ==
    /\ reqs[i].pc # "done"
    /\ LET x == Step(reqs[i], DB, FALSE)
       IN  /\ Commit(x.d)
           /\ reqs' = [reqs EXCEPT ![i] = x.r]
           /\ last' = IF x.r.pc = "done" THEN Response(x.r) ELSE last
           /\ UNCHANGED faults

NextConc ==
    \/ CreatePermit(Null)
    \/ \E p \in DOMAIN permits, s \in {"Approved", "Canceled"} : StartSetStatus(p, s)
    \/ \E p \in DOMAIN permits, b \in {<<"plans.pdf", "Plans">>, <<"site.pdf", "Plans">>} :
          StartUpload(p, b)
    \/ \E i \in DOMAIN reqs : StepRequest(i)

SpecConc == Init /\ [][NextConc]_vars

\* Version chains: uploads that name a parent document, with or without isNewVersion
VersionBuckets == {<<"plans.pdf", "Plans">>}

\* (isNewVersion, parentDocumentId) with a parent supplied but isNewVersion unset
PlainWithParentInputs == {<<FALSE, k>> : k \in DocIds}

NextVersions ==
    \/ CreatePermit(Null)
    \/ \E p \in PermitIds, b \in VersionBuckets,
           v \in VersionInputs \cup PlainWithParentInputs : Upload(p, b, v)

SpecVersions == Init /\ [][NextVersions]_vars

\* The parent links of documents under uploads, re-categorisations and deletions
NextForest ==
    \/ CreatePermit(Null)
    \/ \E p \in DOMAIN permits, b \in VersionBuckets,
           v \in {<<FALSE, 0>>} \cup {<<TRUE, k>> : k \in DocIds} : Upload(p, b, v)
    \/ \E x \in DocIds : PatchDoc(x, "Other", Null, Null)
    \/ \E x \in DocIds : DeleteDoc(x)

SpecForest == Init /\ [][NextForest]_vars

\* The storage collaborator: saves that are refused or fail, deletions that fail
SizeInputs == {MAX_FILE_SIZE, MAX_FILE_SIZE + 1}

UploadFile(p, b, size, storageOk) ==
    Handle(UploadReq(p, b[1], b[2], size, FALSE, 0, storageOk), 0)

DeleteDocFile(id, storageOk) == Handle(DeleteDocReq(id, storageOk), 0)

NextStorage ==
    \/ CreatePermit(Null)
    \/ \E p \in PermitIds, b \in BucketInputs, size \in SizeInputs, ok \in BOOLEAN :
          UploadFile(p, b, size, ok)
    \/ \E x \in DocIds, ok \in BOOLEAN : DeleteDocFile(x, ok)

SpecStorage == Init /\ [][NextStorage]_vars

\* Verification of uploaded documents, some of them rejected by a metadata update
NextVerify ==
    \/ CreatePermit(Null)
    \/ \E p \in DOMAIN permits : Upload(p, <<"plans.pdf", "Plans">>, <<FALSE, 0>>)
    \/ \E x \in DocIds, b \in BOOLEAN : Verify(x, b)
    \/ \E x \in DocIds : PatchDoc(x, Null, Null, "Rejected")

SpecVerify == Init /\ [][NextVerify]_vars

\* The billing status of permits, created with the default status or as Approved
NextBilling ==
    \/ \E s \in {Null, "Approved"} : CreatePermit(s)
    \/ \E p \in PermitIds, b \in BillingStatus \cup {Null} : PatchPermit(p, Null, b)

SpecBilling == Init /\ [][NextBilling]_vars

\* Every operation that writes to the activity log of a permit, and those that
\* change its tasks and documents without writing to it
NextAudit ==
    \/ CreatePermit(Null)
    \/ \E p \in DOMAIN permits : SetStatus(p, "Approved")
    \/ \E p \in DOMAIN permits, b \in PatchBillingInputs : PatchPermit(p, Null, b)
    \/ \E p \in DOMAIN permits : CreateTask(p, "Inspect", Null)
    \/ \E t \in TaskIds : UpdateTask(t, Null, "Completed")
    \/ \E t \in TaskIds : DeleteTask(t)
    \/ \E p \in DOMAIN permits : Upload(p, <<"plans.pdf", "Plans">>, <<FALSE, 0>>)
    \/ \E x \in DocIds : Verify(x, TRUE)
    \/ \E x \in DocIds : PatchDoc(x, Null, "false", Null)
    \/ \E x \in DocIds : DeleteDoc(x)

SpecAudit == Init /\ [][NextAudit]_vars

\* A long history: the status of the first permit is set again and again, which
\* writes an entry each time, and the permit is read in between
MaxHistory == 52

\* A sequential request whose rows are bounded by the guard of its action
Serve(req) ==
    LET x == Run(req, DB, 0)
    IN  /\ Commit(x.d)
        /\ last' = Response(x.r)
        /\ UNCHANGED <<reqs, faults>>

RecordStatus(p, status) ==
    /\ Len(log) < MaxHistory
    /\ Serve(SetStatusReq(p, status))

GetPermit(p) == Serve(GetPermitReq(p))

NextHistory ==
    \/ CreatePermit(Null)
    \/ 1 \in DOMAIN permits /\ RecordStatus(1, "InReview")
    \/ \E p \in PermitIds : GetPermit(p)

SpecHistory == Init /\ [][NextHistory]_vars

\* Status moves in every direction: forward, backward, skipping, out of a terminal status
TransitionInputs == {"New", "InReview", "Approved"} \cup TerminalStatus

NextTransitions ==
    \/ CreatePermit(Null)
    \/ \E p \in PermitIds, s \in TransitionInputs : SetStatus(p, s)

SpecTransitions == Init /\ [][NextTransitions]_vars

----------------------------------------------------------------------------
(* Reading the tables *)

\* the entries a request appended: those of log2 beyond the entries of log1
Added(log1, log2) == SubSeq(log2, Len(log1) + 1, Len(log2))

IsPrefix(log1, log2) ==
    Len(log1) <= Len(log2) /\ SubSeq(log2, 1, Len(log1)) = log1

OfType(entries, type) == SelectSeq(entries, LAMBDA e : e.type = type)

EntriesOf(p, type, desc) ==
    {i \in 1 .. Len(log) :
        log[i].permit = p /\ log[i].type = type /\ log[i].desc = desc}

TasksNamed(p, name) == {t \in tasks : t.permit = p /\ t.name = name}

\* Uploads to two permits: an upload to one permit may name a document of the other
MaxLineagePermits == 2

OpenPermit ==
    /\ Len(permits) < MaxLineagePermits
    /\ Serve(CreatePermitReq(Null))

UploadTo(p, v) ==
    /\ Cardinality(docs) < MaxDocs
    /\ nextId.file <= MaxDocs
    /\ Serve(UploadReq(p, "plans.pdf", "Plans", MAX_FILE_SIZE, v[1], v[2], TRUE))

NextLineage ==
    \/ OpenPermit
    \/ \E p \in PermitIds, v \in VersionInputs : UploadTo(p, v)

SpecLineage == Init /\ [][NextLineage]_vars

\* The grouped listing over version chains of up to MaxListed documents
MaxListed == 4

ListedPermit ==
    /\ Len(permits) < MaxPermits
    /\ Serve(CreatePermitReq(Null))

ListedUpload(p, v) ==
    /\ Cardinality(docs) < MaxListed
    /\ Serve(UploadReq(p, "plans.pdf", "Plans", MAX_FILE_SIZE, v[1], v[2], TRUE))

ListedInputs ==
    {<<FALSE, 0>>, <<TRUE, 0>>} \cup {<<TRUE, x.id>> : x \in docs}

NextListing ==
    \/ ListedPermit
    \/ \E p \in DOMAIN permits, v \in ListedInputs : ListedUpload(p, v)

SpecListing == Init /\ [][NextListing]_vars

\* Status updates of tasks created by hand
NextTaskLog ==
    \/ CreatePermit(Null)
    \/ \E p \in DOMAIN permits, s \in TaskStatusInputs : CreateTask(p, "Call", s)
    \/ \E t \in TaskIds, n \in {Null, "Inspect"}, s \in TaskStatus \cup {Null} :
          UpdateTask(t, n, s)

SpecTaskLog == Init /\ [][NextTaskLog]_vars

----------------------------------------------------------------------------
(* C1: for every permit p and every valid status s other than p's status,  *)
(* a completed setStatus(p, s) appends exactly one StatusChange entry,     *)
(* with oldValue the status p had before and newValue s, and leaves        *)
(* p.status = s.                                                           *)

C1_SetStatusLogsTheChange ==
    \A p \in DOMAIN permits, s \in PermitStatus :
        s # permits[p].status =>
            LET x == Run(SetStatusReq(p, s), DB, 0)
                sc == OfType(Added(log, x.d.log), "StatusChange")
            IN  /\ x.r.code = 200
                /\ IsPrefix(log, x.d.log)
                /\ Len(sc) = 1
                /\ sc[1].permit = p
                /\ sc[1].old = permits[p].status
                /\ sc[1].new = s
                /\ x.d.permits[p].status = s

C1_Witness ==
    /\ last = [op |-> "setStatus", code |-> 200]
    /\ log # << >>
    /\ \E i \in 1 .. Len(log) :
          /\ log[i].type = "StatusChange"
          /\ log[i].old \in PermitStatus
          /\ log[i].old # log[i].new
          /\ \A j \in i + 1 .. Len(log) : log[j].type # "StatusChange"
          /\ permits[log[i].permit].status = log[i].new

----------------------------------------------------------------------------
(* C2: setStatus(p, s) with s the current status of p is a no-op: it       *)
(* appends no ActivityLogEntry for the permit.                             *)

C2_SameStatusAppendsNothing ==
    [][\A p \in DOMAIN permits :
          SetStatus(p, permits[p].status) => log' = log]_vars

----------------------------------------------------------------------------
(* C3: after any sequence of setStatus calls on a permit, if Approved was  *)
(* set at least once then exactly one task named "Send to Billing" exists  *)
(* for the permit, created NotStarted with priority high, and exactly one  *)
(* auto-created TaskCreated entry was written, however often Approved was  *)
(* set again.                                                              *)

ApprovedWasSet(p) ==
    \E i \in EntriesOf(p, "StatusChange", "Status changed") : log[i].new = "Approved"

C3_OneSendToBillingTask ==
    \A p \in DOMAIN permits :
        ApprovedWasSet(p) =>
            /\ Cardinality(TasksNamed(p, SendToBilling)) = 1
            /\ \A t \in TasksNamed(p, SendToBilling) :
                  t.status = "NotStarted" /\ t.priority = "high"
            /\ Cardinality(EntriesOf(p, "TaskCreated", "Task auto-created")) = 1
            \* and setting Approved once more adds neither a task nor an entry
            /\ LET x == Run(SetStatusReq(p, "Approved"), DB, 0)
               IN  /\ x.r.code = 200
                   /\ x.d.tasks = tasks
                   /\ Len(OfType(Added(log, x.d.log), "TaskCreated")) = 0

\* Approved was set twice on the same permit
C3_Witness ==
    \E p \in DOMAIN permits :
        /\ Cardinality({i \in EntriesOf(p, "StatusChange", "Status changed") :
                           log[i].new = "Approved"}) >= 2
        /\ Cardinality(TasksNamed(p, SendToBilling)) = 1

----------------------------------------------------------------------------
(* C4: for any interleaving of concurrent setStatus(p, Approved) calls on  *)
(* the same permit, at most one task named "Send to Billing" exists for p  *)
(* once the calls have ended.                                              *)

AllRequestsEnded == \A i \in DOMAIN reqs : reqs[i].pc = "done"

C4_NoDuplicateAutoTask ==
    AllRequestsEnded =>
        \A p \in DOMAIN permits : Cardinality(TasksNamed(p, SendToBilling)) <= 1

----------------------------------------------------------------------------
(* C5: for setStatus, setBillingStatus, addDocument, verify and            *)
(* deleteDocument the state change and its ActivityLogEntry commit as one  *)
(* unit: whenever such a request ends, with success or with an error, it   *)
(* has changed the permit, task and document tables exactly when it has    *)
(* appended to the log.                                                    *)

AuditedOps == {"setStatus", "patchPermit", "upload", "verify", "deleteDoc"}

C5_StateAndAuditCommitTogether ==
    [][last'.op \in AuditedOps =>
          ((<<permits, tasks, docs>>' # <<permits, tasks, docs>>) <=> (log' # log))]_vars

----------------------------------------------------------------------------
(* C6: sequential uploads of n files to one (permit, fileName, category)   *)
(* bucket receive v1, v2, ..., vn in upload order, the first upload into   *)
(* an empty bucket gets v1, and uploads to other buckets do not affect     *)
(* the numbering.                                                          *)

SameBucket(u, w) == u[1] = w[1] /\ u[2] = w[2] /\ u[3] = w[3]

\* the number of uploads to the bucket of the i-th upload, up to and including it
RankInBucket(i) ==
    Cardinality({j \in 1 .. i : SameBucket(uploads[j], uploads[i])})

C6_TagsCountTheBucket ==
    /\ \A i \in DOMAIN uploads : uploads[i][4] = <<"v", RankInBucket(i)>>
    /\ \A x \in docs :
          \E i \in DOMAIN uploads :
              uploads[i] = <<x.permit, x.fileName, x.category, x.versionTag>>

\* three uploads to one bucket, tagged v1, v2, v3 in upload order
C6_Witness ==
    /\ Len(uploads) = 3
    /\ \A i \in 1 .. 3 : SameBucket(uploads[i], uploads[1]) /\ uploads[i][4] = <<"v", i>>
    /\ Cardinality(docs) = 3

----------------------------------------------------------------------------
(* C7: within one (permit, fileName, category) bucket no upload is ever    *)
(* assigned a versionTag that an earlier upload to that bucket was         *)
(* assigned, also after that earlier document was deleted or moved to      *)
(* another category.                                                       *)

C7_TagsNeverReused ==
    \A i, j \in DOMAIN uploads : i < j => uploads[i] # uploads[j]

----------------------------------------------------------------------------
(* C8: for any interleaving of concurrent uploads to one bucket, no two    *)
(* PermitDocument rows of the bucket end up with the same versionTag.      *)

C8_NoDuplicateTagInBucket ==
    AllRequestsEnded =>
        \A x, y \in docs :
            (/\ x.permit = y.permit
             /\ x.fileName = y.fileName
             /\ x.category = y.category
             /\ x.versionTag = y.versionTag) => x.id = y.id

----------------------------------------------------------------------------
(* C9: verify(doc, b) writes a DocumentVerified entry only when isVerified *)
(* changes: verify with the value the document already has appends none,   *)
(* so verify(doc, true) twice appends one entry in total.                  *)

C9_VerifyLogsOnlyChanges ==
    [][\A x \in docs, b \in BOOLEAN :
          Verify(x.id, b) =>
              Len(OfType(Added(log, log'), "DocumentVerified"))
                  = IF b # x.isVerified THEN 1 ELSE 0]_vars

----------------------------------------------------------------------------
(* C10: in every reachable state every task has completedAt non-null       *)
(* exactly when its status is Completed.                                   *)

C10_CompletedAtIffCompleted ==
    \A t \in tasks : t.completedAt <=> (t.status = "Completed")

----------------------------------------------------------------------------
(* C11: a document uploaded with isNewVersion and parentDocumentId = X     *)
(* gets parentDocumentId = X and the versionGroupId of X when X has one,   *)
(* and X's id as versionGroupId when X has none.                           *)

GroupUnder(X) == IF X.group # 0 THEN X.group ELSE X.id

C11_NewVersionJoinsParentGroup ==
    /\ \A p \in DOMAIN permits, b \in BucketInputs, X \in docs :
          LET x == Run(UploadReq(p, b[1], b[2], MAX_FILE_SIZE, TRUE, X.id, TRUE), DB, 0)
          IN  /\ x.r.code = 201
              /\ Cardinality(x.d.docs \ docs) = 1
              /\ \A n \in x.d.docs \ docs :
                    n.parent = X.id /\ n.group = GroupUnder(X)
    \* and the documents uploaded so are still grouped with the parent they have
    /\ \A n \in docs :
          n.parent # 0 => DocExists(DB, n.parent)
                          /\ n.group = GroupUnder(DocById(DB, n.parent))

\* a chain of three: the root has no group, its child and grandchild have the root's id
C11_Witness ==
    \E a, b, c \in docs :
        /\ a.parent = 0 /\ a.group = 0
        /\ b.parent = a.id /\ b.group = a.id
        /\ c.parent = b.id /\ c.group = a.id

----------------------------------------------------------------------------
(* C12: a document uploaded without isNewVersion has no versionGroupId and *)
(* no parentDocumentId, also when a parentDocumentId came with the         *)
(* request; two such uploads of one file name to one category are tagged   *)
(* with the next two version numbers of the bucket (v1 and v2 when it was  *)
(* empty) and share no version group.                                      *)

PlainUpload(p, b, k) == UploadReq(p, b[1], b[2], MAX_FILE_SIZE, FALSE, k, TRUE)

C12_PlainUploadHasNoGroup ==
    \A p \in DOMAIN permits, b \in BucketInputs, k1 \in {0} \cup DocIds,
       k2 \in {0} \cup DocIds :
        LET n == CountVersions(DB, p, b[1], b[2])
            x1 == Run(PlainUpload(p, b, k1), DB, 0)
            x2 == Run(PlainUpload(p, b, k2), x1.d, 0)
            row1 == x1.d.docs \ docs
            row2 == x2.d.docs \ x1.d.docs
        IN  /\ x1.r.code = 201 /\ x2.r.code = 201
            /\ Cardinality(row1) = 1 /\ Cardinality(row2) = 1
            /\ \A x \in row1 :
                  x.parent = 0 /\ x.group = 0 /\ x.versionTag = VersionTag(n + 1)
            /\ \A x \in row2 :
                  x.parent = 0 /\ x.group = 0 /\ x.versionTag = VersionTag(n + 2)

\* plans.pdf uploaded to Plans twice, the second time after the first row existed
C12_Witness ==
    /\ last = [op |-> "upload", code |-> 201]
    /\ \E x, y \in docs :
          /\ x.fileName = "plans.pdf" /\ y.fileName = "plans.pdf"
          /\ x.category = "Plans" /\ y.category = "Plans"
          /\ x.permit = y.permit
          /\ x.versionTag = VersionTag(1) /\ y.versionTag = VersionTag(2)
          /\ x.parent = 0 /\ y.parent = 0 /\ x.group = 0 /\ y.group = 0

----------------------------------------------------------------------------
(* C13: in every reachable state the parent links of the documents form a  *)
(* forest: a document id names one row, with one parentDocumentId that is  *)
(* null or the id of an existing document, and following the links from    *)
(* any document ends at a document without parent (no cycle).              *)

\* following parent links from id ends at null within n steps
RECURSIVE EndsAtRoot(_, _)
EndsAtRoot(id, n) ==
    IF id = 0 THEN TRUE
    ELSE IF n = 0 \/ ~DocExists(DB, id) THEN FALSE
    ELSE EndsAtRoot(DocById(DB, id).parent, n - 1)

C13_ParentGraphIsForest ==
    /\ \A x, y \in docs : x.id = y.id => x = y
    /\ \A x \in docs : x.parent = 0 \/ DocExists(DB, x.parent)
    /\ \A x \in docs : EndsAtRoot(x.id, Cardinality(docs))

\* a parent was deleted: its child is left without parent, still in the parent's group
C13_Witness ==
    /\ last = [op |-> "deleteDoc", code |-> 200]
    /\ \E x \in docs : x.parent = 0 /\ x.group > 0 /\ ~DocExists(DB, x.group)

----------------------------------------------------------------------------
(* C14: when the save of the storage collaborator fails, also when it      *)
(* refuses a payload longer than the maximum size, the upload creates no   *)
(* PermitDocument row and no DocumentUploaded entry; a row exists only     *)
(* after its save has succeeded.                                           *)

C14_NoRowWithoutSave ==
    /\ \A p \in DOMAIN permits, b \in BucketInputs, size \in SizeInputs,
          ok \in BOOLEAN :
          LET x == Run(UploadReq(p, b[1], b[2], size, FALSE, 0, ok), DB, 0)
          IN  IF ok /\ size <= MAX_FILE_SIZE
              THEN /\ x.r.code = 201
                   /\ \E row \in x.d.docs \ docs : row.path \in x.d.files \ files
              ELSE /\ x.r.code = 500
                   /\ x.d.docs = docs
                   /\ x.d.log = log
                   /\ x.d.files = files
    \* every row carries a path that a save handed out
    /\ \A x \in docs : x.path \in 1 .. nextId.file - 1

\* an upload has just failed in the save, after others went through
C14_Witness ==
    /\ last = [op |-> "upload", code |-> 500]
    /\ docs # {}
    /\ Cardinality(docs) = Len(OfType(log, "DocumentUploaded"))
    /\ \A x \in docs : x.path \in files

----------------------------------------------------------------------------
(* C15: an upload with isNewVersion and a parentDocumentId that names no   *)
(* existing document ends with not-found and creates no row, no audit      *)
(* entry and no stored file; an upload for a permit id that names no       *)
(* permit ends with not-found and changes nothing.                         *)

NotFoundAndNothingChanged ==
    /\ last'.code = 404
    /\ UNCHANGED <<permits, tasks, docs, log, files>>

C15_MissingParentOrPermitIsNotFound ==
    [][/\ \A p \in DOMAIN permits, b \in VersionBuckets, k \in DocIds :
            (~DocExists(DB, k) /\ Upload(p, b, <<TRUE, k>>))
                => NotFoundAndNothingChanged
       /\ \A p \in PermitIds \ DOMAIN permits, b \in VersionBuckets,
             v \in VersionInputs :
            Upload(p, b, v) => NotFoundAndNothingChanged]_vars

----------------------------------------------------------------------------
(* C16: setStatus with a status outside the nine-value enum ends with a    *)
(* validation error, and setStatus on a permit id that names no permit     *)
(* ends with not-found; in both cases no permit is changed, no entry is    *)
(* written and no task is created.                                         *)

InvalidStatusInputs == {"Bogus", Null}

C16_SetStatusRejectsBadInput ==
    /\ \A p \in PermitIds, s \in InvalidStatusInputs :
          LET x == Run(SetStatusReq(p, s), DB, 0)
          IN  x.r.code = 400 /\ x.d = DB
    /\ \A p \in PermitIds \ DOMAIN permits, s \in PermitStatus :
          LET x == Run(SetStatusReq(p, s), DB, 0)
          IN  x.r.code = 404 /\ x.d = DB

\* a status outside the enum was refused on a permit that is as it was created
C16_Witness ==
    /\ last = [op |-> "setStatus", code |-> 400]
    /\ DOMAIN permits # {}
    /\ \A p \in DOMAIN permits : permits[p].status \in PermitStatus
    /\ Len(log) = 1
    /\ tasks = {}

----------------------------------------------------------------------------
(* C17: setStatus rejects no transition on state-machine grounds: from any *)
(* status, the terminal FinaledClosed and Canceled included, and backward  *)
(* or skipping, each of the nine enum values is accepted, the permit then  *)
(* has that status, and a move to another status is logged as one          *)
(* StatusChange entry from the old to the new status.                      *)

C17_EveryTransitionIsTaken ==
    \A p \in DOMAIN permits, s \in PermitStatus :
        LET cur == permits[p].status
            x == Run(SetStatusReq(p, s), DB, 0)
            sc == OfType(Added(log, x.d.log), "StatusChange")
        IN  /\ x.r.code = 200
            /\ x.d.permits[p].status = s
            /\ s # cur => \E i \in 1 .. Len(sc) :
                              sc[i] = LogEntry(p, "StatusChange", "Status changed", cur, s)

\* a permit was moved out of a terminal status, back to New
C17_Witness ==
    /\ last = [op |-> "setStatus", code |-> 200]
    /\ \E i \in 1 .. Len(log) :
          /\ log[i].type = "StatusChange"
          /\ log[i].old \in TerminalStatus
          /\ log[i].new = "New"
          /\ permits[log[i].permit].status = "New"

----------------------------------------------------------------------------
(* C18: after verify(doc, b) on an existing document, isVerified = b and   *)
(* the status is Verified when b is true and Pending when b is false,      *)
(* whatever the status was before (Rejected included); verify on an id     *)
(* that names no document ends with not-found and writes nothing.          *)

C18_VerifySetsFlagAndStatus ==
    /\ \A x \in docs, b \in BOOLEAN :
          LET y == Run(VerifyReq(x.id, b), DB, 0)
              row == [x EXCEPT !.isVerified = b,
                               !.status = IF b THEN "Verified" ELSE "Pending"]
          IN  /\ y.r.code = 200
              /\ y.d.docs = (docs \ {x}) \cup {row}
    /\ \A id \in DocIds :
          ~DocExists(DB, id) =>
              LET y == Run(VerifyReq(id, TRUE), DB, 0)
              IN  y.r.code = 404 /\ y.d = DB

\* a document was verified while another one stands rejected
C18_Witness ==
    /\ last = [op |-> "verify", code |-> 200]
    /\ \E x, y \in docs :
          /\ x.isVerified /\ x.status = "Verified"
          /\ y.status = "Rejected"

----------------------------------------------------------------------------
(* C19: deleteDocument on an existing document removes its row and appends *)
(* exactly one FieldUpdated entry noting the deletion, also when deleting  *)
(* the bytes from storage fails; on an id that names no document it ends   *)
(* with not-found and changes nothing.                                     *)

C19_DeleteSurvivesStorageFailure ==
    /\ \A x \in docs, ok \in BOOLEAN :
          LET y == Run(DeleteDocReq(x.id, ok), DB, 0)
          IN  /\ y.r.code = 200
              /\ ~DocExists(y.d, x.id)
              /\ {z.id : z \in y.d.docs} = {z.id : z \in docs} \ {x.id}
              /\ Added(log, y.d.log)
                    = <<LogEntry(x.permit, "FieldUpdated", "Document deleted", Null, Null)>>
              /\ IsPrefix(log, y.d.log)
              /\ y.d.files = IF ok THEN files \ {x.path} ELSE files
    /\ \A id \in DocIds, ok \in BOOLEAN :
          ~DocExists(DB, id) =>
              LET y == Run(DeleteDocReq(id, ok), DB, 0)
              IN  y.r.code = 404 /\ y.d = DB

\* a document was deleted while its bytes stayed in storage
C19_Witness ==
    /\ last = [op |-> "deleteDoc", code |-> 200]
    /\ \E f \in files : \A x \in docs : x.path # f
    /\ \E i \in 1 .. Len(log) : log[i].desc = "Document deleted"

----------------------------------------------------------------------------
(* C20: changing the billing status of a permit to another value of the    *)
(* billing enum appends exactly one BillingStatusChange entry from the old *)
(* to the new value; setting the value it has appends none; in neither     *)
(* case is a task created or the status of the permit changed.             *)

C20_BillingChangeLogsOnly ==
    \A p \in DOMAIN permits, b \in BillingStatus :
        LET cur == permits[p].billingStatus
            x == Run(PatchPermitReq(p, Null, b), DB, 0)
        IN  /\ x.r.code = 200
            /\ x.d.permits[p].billingStatus = b
            /\ x.d.permits[p].status = permits[p].status
            /\ x.d.tasks = tasks
            /\ IsPrefix(log, x.d.log)
            /\ Added(log, x.d.log)
                  = IF b # cur
                    THEN <<LogEntry(p, "BillingStatusChange", "Billing status changed",
                                    cur, b)>>
                    ELSE << >>

\* the billing status was changed twice and no task exists
C20_Witness ==
    /\ last = [op |-> "patchPermit", code |-> 200]
    /\ tasks = {}
    /\ \E i, j \in 1 .. Len(log) :
          /\ i < j
          /\ log[i].type = "BillingStatusChange" /\ log[j].type = "BillingStatusChange"
          /\ log[i].permit = log[j].permit
          /\ log[i].new = log[j].old /\ log[j].old # log[j].new
          /\ permits[log[j].permit].billingStatus = log[j].new

----------------------------------------------------------------------------
(* C21: the activity log is append-only: every step of every operation     *)
(* (status, billing and field updates, task create, update and delete,     *)
(* document upload, verify, update and delete) leaves the log it found as  *)
(* a prefix of the log it leaves.                                          *)

C21_LogIsAppendOnly == [][IsPrefix(log, log')]_vars

\* a full log written by four kinds of operation, the last one a deletion
C21_Witness ==
    /\ last = [op |-> "deleteDoc", code |-> 200]
    /\ Len(log) >= 4
    /\ Cardinality({log[i].type : i \in 1 .. Len(log)}) >= 3

----------------------------------------------------------------------------
(* C22: a permit update whose body carries neither status nor              *)
(* billingStatus appends no entry, creates no task and leaves status and   *)
(* billingStatus as they were.                                             *)

C22_FieldUpdateWritesNoAudit ==
    \A p \in DOMAIN permits :
        LET x == Run(PatchPermitReq(p, Null, Null), DB, 0)
        IN  /\ x.r.code = 200
            /\ x.d.log = log
            /\ x.d.tasks = tasks
            /\ x.d.permits[p].status = permits[p].status
            /\ x.d.permits[p].billingStatus = permits[p].billingStatus

\* an update has ended on a permit whose log holds its creation and one billing
\* change, and nothing else
C22_Witness ==
    /\ last = [op |-> "patchPermit", code |-> 200]
    /\ Len(log) = 2
    /\ log[2].type = "BillingStatusChange"
    /\ permits[log[2].permit].billingStatus = log[2].new
    /\ tasks = {}

----------------------------------------------------------------------------
(* C23: reading the lineage of a document returns every document of its    *)
(* version group, the root and all revisions and not only the direct       *)
(* children, in the order of their upload.                                 *)

VersionGroup(x) == {y \in docs : GroupKey(y) = GroupKey(x)}

C23_LineageIsTheWholeGroup ==
    \A x \in docs : Lineage(DB, x.id) = Ascending(VersionGroup(x))

----------------------------------------------------------------------------
(* C24: reading a permit returns its activity entries most recent first,   *)
(* bounded to the 50 most recent: an entry of the permit is returned       *)
(* exactly when fewer than 50 entries of that permit are newer, and the    *)
(* returned entries are in descending order of creation.                   *)

Newer(p, i) == {j \in ActivityOf(DB, p) : j > i}

----------------------------------------------------------------------------
(* C25: whenever an operation that completes has changed the status of a   *)
(* permit to Approved (the status endpoint, a permit update that carries   *)
(* a status, or creation with status Approved), a task named "Send to      *)
(* Billing" exists for that permit when the operation has completed.       *)

BecomesApproved(p) ==
    /\ permits'[p].status = "Approved"
    /\ p \in DOMAIN permits => permits[p].status # "Approved"

C25_ApprovedHasBillingTask ==
    [][\A p \in DOMAIN permits' :
          (BecomesApproved(p) /\ last'.code \in {200, 201})
              => \E t \in tasks' : t.permit = p /\ t.name = SendToBilling]_vars

----------------------------------------------------------------------------
(* C26: under concurrent status updates the StatusChange entries of a      *)
(* permit mirror its status history: in write order each entry's oldValue  *)
(* is the newValue of the permit's previous StatusChange entry, and when   *)
(* no update is in flight the newest entry's newValue is the permit's      *)
(* current status.                                                         *)

StatusChanges(p) ==
    SelectSeq(log, LAMBDA e : e.permit = p /\ e.type = "StatusChange")

C26_StatusChangesChain ==
    \A p \in DOMAIN permits :
        LET s == StatusChanges(p)
        IN  /\ \A i \in 2 .. Len(s) : s[i].old = s[i - 1].new
            /\ (AllRequestsEnded /\ s # <<>>) => s[Len(s)].new = permits[p].status

----------------------------------------------------------------------------
(* C27: in every reachable state every document has isVerified = true      *)
(* exactly when its status is Verified, under any sequence of uploads,     *)
(* verify calls and document-metadata updates.                             *)

C27_VerifiedFlagMatchesStatus ==
    \A x \in docs : x.isVerified <=> x.status = "Verified"

----------------------------------------------------------------------------
(* C28: version lineage never crosses permits: the parent of every         *)
(* document belongs to the document's permit, and all documents sharing a  *)
(* versionGroupId belong to one permit.                                    *)

C28_LineageStaysInOnePermit ==
    /\ \A x \in docs :
          (x.parent # 0 /\ DocExists(DB, x.parent))
              => DocById(DB, x.parent).permit = x.permit
    /\ \A x, y \in docs :
          (x.group # 0 /\ x.group = y.group) => x.permit = y.permit

----------------------------------------------------------------------------
(* C29: in a permit's grouped document listing a root document and every   *)
(* revision uploaded with isNewVersion anywhere down its parent chain fall *)
(* into the same group, also when the root has no versionGroupId, and      *)
(* documents of unrelated lineages never share a group.                    *)

RECURSIVE RootOf(_, _)
RootOf(d, x) ==
    IF x.parent = 0 \/ ~DocExists(d, x.parent)
    THEN x.id
    ELSE RootOf(d, DocById(d, x.parent))

C29_GroupIsTheLineage ==
    \A x \in docs :
        GroupedDocuments(DB, x.permit, GroupKey(x))
            = {y \in docs : y.permit = x.permit /\ RootOf(DB, y) = RootOf(DB, x)}

C29_Witness ==
    \E x, y, z, w \in docs :
        /\ x.parent = 0 /\ x.group = 0
        /\ y.parent = x.id /\ z.parent = y.id
        /\ {y.permit, z.permit, w.permit} = {x.permit}
        /\ RootOf(DB, w) # x.id
        /\ GroupedDocuments(DB, x.permit, GroupKey(z)) = {x, y, z}

----------------------------------------------------------------------------
(* C30: a task update that changes the task's status appends exactly one   *)
(* entry to the log of the task's permit, of type TaskCompleted when the   *)
(* new status is Completed and FieldUpdated otherwise, with oldValue and   *)
(* newValue the old and the new task status; a task update that does not   *)
(* change the status appends no entry.                                     *)

TaskStatusEntry(t, status) ==
    LogEntry(t.permit,
             IF status = "Completed" THEN "TaskCompleted" ELSE "FieldUpdated",
             "Task status changed", t.status, status)

C30_TaskStatusChangeIsLoggedOnce ==
    \A t \in tasks, n \in {Null, "Inspect"}, s \in TaskStatus \cup {Null} :
        LET x == Run(UpdateTaskReq(t.id, n, s), DB, 0)
        IN  /\ x.r.code = 200
            /\ x.d.log = IF s # Null /\ s # t.status
                          THEN Append(log, TaskStatusEntry(t, s))
                          ELSE log

C30_Witness ==
    /\ last = [op |-> "updateTask", code |-> 200]
    /\ log # <<>>
    /\ \E t \in tasks :
          /\ t.status = "Completed"
          /\ log[Len(log)].permit = t.permit
          /\ log[Len(log)].type = "TaskCompleted"
          /\ log[Len(log)].old # "Completed"
          /\ log[Len(log)].new = "Completed"
    /\ \E t \in tasks :
          Run(UpdateTaskReq(t.id, Null, t.status), DB, 0).d.log = log

====
